---- MODULE Spec2Model ----
(***************************************************************************)
(* Coprocessor v2 of TiKV: the plugin registry (PluginManager), the        *)
(* wrapper around a loaded plugin library (LoadedPlugin) and the request   *)
(* endpoint (CoprV2Endpoint::handle_request).                              *)
(*                                                                         *)
(* A manager operation (load_plugin, uninstall, the drop of the manager)   *)
(* takes `&mut self` or ownership, so it runs with no request inside       *)
(* handle_request; it is one action.  Its body is a straight line of       *)
(* effects (open library, run constructor, on_plugin_load, insert, drop    *)
(* glue ...).  Each operation is written as the sequence of these effects  *)
(* in the order the code performs them, the sequence is applied to the     *)
(* state by Run, and it is kept in `events` so that orderings inside one   *)
(* operation can be stated.                                                *)
(*                                                                         *)
(* handle_request takes `&self`; any number of threads can be inside it.   *)
(* It is split at the call of the plugin's handler: HandleRequest* is the  *)
(* lookup up to the call, HandlerReturn is the handler's result up to the  *)
(* response.                                                               *)
(***************************************************************************)
EXTENDS Integers, Sequences, FiniteSets, TLC

\* --------------------------------------------------------------- bounds
MaxHandles == 3      \* LoadedPlugin values ever constructed
MaxReqs == 2         \* threads that can be inside handle_request
MaxKey == 4          \* keys are the one-byte strings 0 .. MaxKey

\* --------------------------------------------------------------- inputs
\* Plugin names, as returned by CoprocessorPlugin::name().
Names == {"a", "b"}

\* copr_name values of requests: the names above and one no plugin has.
CoprNames == Names \cup {"nonexistent"}

\* Library files given to load_plugin.
Files == {"liba.so", "libb.so", "nosymbol.so", "badload.so", "missing.so"}

\* Whether Library::new(filename) can open the file.
FileOpens(f) == f # "missing.so"

\* Whether the library exports `_plugin_create`.
FileHasSymbol(f) == f # "nosymbol.so"

\* Whether the plugin's on_plugin_load panics.
FileLoadAborts(f) == f = "badload.so"

\* What the plugin of the library returns from name().
FileName(f) == IF f \in {"liba.so", "badload.so"} THEN "a" ELSE "b"

\* Opaque payloads and results (Vec<u8>).
Bytes == {<<>>, <<1>>, <<2>>}

Handles == 1 .. MaxHandles
NoPlugin == 0
Reqs == 1 .. MaxReqs

VARIABLES
    loaded_plugins,   \* PluginManager.loaded_plugins: name -> handle, NoPlugin when absent
    plugin,           \* LoadedPlugin.plugin of each handle: "none", "alive", "dropped"
    lib,              \* LoadedPlugin.lib of each handle: "none", "open", "closed"
    file,             \* the file each handle was loaded from ("" before)
    on_load_calls,    \* completed on_plugin_load calls on each handle's plugin
    on_unload_calls,  \* on_plugin_unload calls on each handle's plugin
    nextHandle,       \* the next LoadedPlugin to be constructed
    managerAlive,     \* the PluginManager has not been dropped
    lastOp,           \* per name: the last completed install/uninstall ("none" at start)
    events,           \* the effects of the last manager operation, in program order
    req,              \* per thread: its position in handle_request
    returned,         \* how the last call of handle_request that ended did end
    store,            \* the engine's default column family: key -> << >> or << value >>
    pending,          \* the write the engine has accepted and not yet completed
    call,             \* the plugin's current (or last) call of a RawStorage operation
    acked,            \* per key, what the writes that returned Ok to the plugin left
    issued            \* the last engine operation a request's bridge issued

endpointVars == <<loaded_plugins, plugin, lib, file, on_load_calls, on_unload_calls,
                  nextHandle, managerAlive, lastOp, events, req, returned, issued>>

bridgeVars == <<store, pending, call, acked>>

vars == <<loaded_plugins, plugin, lib, file, on_load_calls, on_unload_calls,
          nextHandle, managerAlive, lastOp, events, req, returned,
          store, pending, call, acked, issued>>

\* ------------------------------------------------- effects and their meaning
\* One effect of a manager operation on handle h; arg is the file of a
\* "lib_open", the name of an "insert" or "remove", and "" otherwise.
Ev(kind, h, arg) == [ev |-> kind, h |-> h, arg |-> arg]

\* The part of the state the effects act on.
ManagerState == [lp |-> loaded_plugins, plugin |-> plugin, lib |-> lib, file |-> file,
                 loads |-> on_load_calls, unloads |-> on_unload_calls]

\* The state after one effect.
Apply(st, e) ==
    CASE e.ev = "lib_open"    -> [st EXCEPT !.lib[e.h] = "open", !.file[e.h] = e.arg]
      [] e.ev = "constructor" -> [st EXCEPT !.plugin[e.h] = "alive"]
      [] e.ev = "on_load"     -> [st EXCEPT !.loads[e.h] = @ + 1]
      [] e.ev = "insert"      -> [st EXCEPT !.lp[e.arg] = e.h]
      [] e.ev = "remove"      -> [st EXCEPT !.lp[e.arg] = NoPlugin]
      [] e.ev = "on_unload"   -> [st EXCEPT !.unloads[e.h] = @ + 1]
      [] e.ev = "drop_plugin" -> [st EXCEPT !.plugin[e.h] = "dropped"]
      [] e.ev = "lib_close"   -> [st EXCEPT !.lib[e.h] = "closed"]
      [] OTHER                -> st   \* "on_load_abort", "panic"

\* The state after a sequence of effects, applied first to last.
RECURSIVE Run(_, _)
Run(st, es) == IF es = <<>> THEN st ELSE Run(Apply(st, Head(es)), Tail(es))

\* Whether an operation ended in a panic.
Panicked(es) == \E i \in 1 .. Len(es) : es[i].ev = "panic"

\* ------------------------------------------------------------ LoadedPlugin
\* Drop_LoadedPlugin with Drop::drop left out: on_plugin_unload is not called.
Drop_LoadedPlugin_NoUnload(h) ==
    << Ev("drop_plugin", h, ""), Ev("lib_close", h, "") >>

\* Drop_LoadedPlugin with the fields declared `lib` before `plugin`.
Drop_LoadedPlugin_LibFirst(h) ==
    << Ev("on_unload", h, ""), Ev("lib_close", h, ""), Ev("drop_plugin", h, "") >>

\* Drop of a LoadedPlugin: Drop::drop calls on_plugin_unload, then the drop
\* glue drops the fields in declaration order, `plugin` before `lib`.
Drop_LoadedPlugin(h) ==
    << Ev("on_unload", h, ""), Ev("drop_plugin", h, ""), Ev("lib_close", h, "") >>

\* LoadedPlugin_new with the call of on_plugin_load left out.
LoadedPlugin_new_NoLoadHook(h, f) ==
    IF ~FileHasSymbol(f)
    THEN << Ev("panic", h, ""), Ev("lib_close", h, "") >>
    ELSE << Ev("constructor", h, "") >>

\* LoadedPlugin_new that builds the LoadedPlugin before it calls
\* on_plugin_load, so that a panic of the hook runs Drop::drop.
LoadedPlugin_new_UnloadOnAbort(h, f) ==
    IF ~FileHasSymbol(f)
    THEN << Ev("panic", h, ""), Ev("lib_close", h, "") >>
    ELSE IF FileLoadAborts(f)
    THEN << Ev("constructor", h, ""), Ev("on_load_abort", h, ""), Ev("panic", h, "") >>
         \o Drop_LoadedPlugin(h)
    ELSE << Ev("constructor", h, ""), Ev("on_load", h, "") >>

\* LoadedPlugin::new(lib) on the opened library of file f.  A missing symbol
\* panics in expect() with only `lib` alive; a panic in on_plugin_load unwinds
\* through the locals in reverse order of declaration, `plugin` before `lib`,
\* and no LoadedPlugin exists whose Drop could call on_plugin_unload.
LoadedPlugin_new(h, f) ==
    IF ~FileHasSymbol(f)
    THEN << Ev("panic", h, ""), Ev("lib_close", h, "") >>
    ELSE IF FileLoadAborts(f)
    THEN << Ev("constructor", h, ""), Ev("on_load_abort", h, ""), Ev("panic", h, ""),
            Ev("drop_plugin", h, ""), Ev("lib_close", h, "") >>
    ELSE << Ev("constructor", h, ""), Ev("on_load", h, "") >>

\* ----------------------------------------------------------- PluginManager
\* get_plugin(plugin_name): the entry of the map, NoPlugin for None.
get_plugin(lp, plugin_name) ==
    IF plugin_name \in DOMAIN lp THEN lp[plugin_name] ELSE NoPlugin

\* Insert that never stores the new value (the value is dropped instead).
Insert_NotStored(lp, plugin_name, h) == Drop_LoadedPlugin(h)

\* Insert that forgets the value it replaced instead of dropping it.
Insert_LeaksOld(lp, plugin_name, h) == << Ev("insert", h, plugin_name) >>

\* BTreeMap::insert(plugin_name, plugin) as a statement: the new value is
\* stored, the value it replaced is returned and dropped at the semicolon.
Insert(lp, plugin_name, h) ==
    << Ev("insert", h, plugin_name) >>
    \o (IF lp[plugin_name] # NoPlugin THEN Drop_LoadedPlugin(lp[plugin_name]) ELSE << >>)

\* load_plugin that inserts under a key of its own, not under name().
load_plugin_FixedKey(lp, h, f) ==
    IF ~FileOpens(f)
    THEN << Ev("panic", NoPlugin, "") >>
    ELSE LET made == << Ev("lib_open", h, f) >> \o LoadedPlugin_new(h, f)
         IN  IF Panicked(made) THEN made ELSE made \o Insert(lp, "a", h)

\* load_plugin(filename), constructing handle h.  Library::new(..).expect()
\* panics when the file cannot be opened; a panic of LoadedPlugin::new
\* passes through; otherwise the plugin is inserted under its own name().
load_plugin(lp, h, f) ==
    IF ~FileOpens(f)
    THEN << Ev("panic", NoPlugin, "") >>
    ELSE LET made == << Ev("lib_open", h, f) >> \o LoadedPlugin_new(h, f)
         IN  IF Panicked(made) THEN made ELSE made \o Insert(lp, FileName(f), h)

\* How load_plugin ends for its caller: Ok(()) at its last line, or the panic
\* of an expect() or of on_plugin_load; LoadedPlugin::new has no Err path,
\* so the `?` never returns one.
load_plugin_result(es) == IF Panicked(es) THEN "panic" ELSE "Ok"

\* uninstall(plugin_name): the entry is removed from the map and dropped.
uninstall(lp, plugin_name) ==
    IF lp[plugin_name] = NoPlugin
    THEN << >>
    ELSE << Ev("remove", NoPlugin, plugin_name) >> \o Drop_LoadedPlugin(lp[plugin_name])

\* The keys of the map in the order a BTreeMap visits them.
NameOrder == << "a", "b" >>

\* Drop of the PluginManager: the map drops its entries in key order.
RECURSIVE Drop_PluginManager(_, _)
Drop_PluginManager(lp, i) ==
    IF i > Len(NameOrder) THEN << >>
    ELSE (IF lp[NameOrder[i]] = NoPlugin THEN << >>
          ELSE << Ev("remove", NoPlugin, NameOrder[i]) >> \o Drop_LoadedPlugin(lp[NameOrder[i]]))
         \o Drop_PluginManager(lp, i + 1)

\* ExclusiveAccess with the map behind interior mutability and no borrow held.
ExclusiveAccess_Unchecked == TRUE

\* `&mut self` (or ownership) of the manager: no thread holds the `&self`
\* borrow that handle_request keeps while it is inside the plugin's handler.
ExclusiveAccess == \A r \in Reqs : req[r].pc # "in_handler"

\* ---------------------------------------------------------- CoprV2Endpoint
\* What on_raw_coprocessor_request can do: return Ok(bytes), return an Err of
\* storage_api::Error (RegionError or OtherError), or panic.
HandlerOutcomes ==
    [tag : {"Ok"}, bytes : Bytes]
    \cup [tag : {"RegionError", "OtherError", "Panic"}, bytes : {<< >>}]

\* RawCoprocessorResponse::new(): every field at its default.
NewResponse == [produced |-> TRUE, data |-> << >>, other_error |-> "", region_error |-> FALSE]

\* handle_request unwound by a panic: the caller gets no response.
NoResponse == [produced |-> FALSE, data |-> << >>, other_error |-> "", region_error |-> FALSE]

\* What the example plugin returns, as Ok, for its PluginRequest::Error: the
\* encoding of its own Err("User-defined error message").
PluginErrorBytes == << 2 >>

\* Respond by a host that decodes the plugin's bytes and reports a plugin's
\* own error as other_error.
Respond_ParsesData(out) ==
    IF out.tag # "Ok" THEN NoResponse
    ELSE IF out.bytes = PluginErrorBytes
    THEN [NewResponse EXCEPT !.other_error = "User-defined error message"]
    ELSE [NewResponse EXCEPT !.data = out.bytes]

\* The end of handle_request for a handler outcome: `.unwrap()` of the
\* handler's Result panics on Err, a panic of the handler passes through,
\* and Ok(result) becomes the `data` of a fresh response.
Respond(out) ==
    IF out.tag = "Ok" THEN [NewResponse EXCEPT !.data = out.bytes] ELSE NoResponse

\* The kvrpcpb::Context of the request of thread r: here each thread's
\* request is addressed to a region of its own.
Context(r) == [region_id |-> r]

\* Context::default(), and no context.
NoContext == [region_id |-> 0]

\* Region::default(): id 0, empty keys, epoch (0, 0).
Region_default == [id |-> 0, start_key |-> 0, end_key |-> 0,
                   region_epoch |-> [conf_ver |-> 0, version |-> 0]]

\* RawStorageImpl::new that ignores the context it is given.
RawStorageImpl_new_DefaultContext(context) == [context |-> NoContext]

\* RawStorageImpl::new(context, storage): the bridge owns the clone of the
\* request's context it was given.
RawStorageImpl_new(context) == [context |-> context]

\* No bridge has been built.
NoBridge == [context |-> NoContext]

\* No engine operation has been issued.
NoIssue == [by |-> 0, context |-> NoContext]

\* A thread outside handle_request.
IdleReq == [pc |-> "idle", copr_name |-> "", plugin |-> NoPlugin,
            region |-> Region_default, bridge |-> NoBridge]

\* No call of handle_request has ended yet.
NothingReturned == [call |-> FALSE, copr_name |-> "", plugin |-> NoPlugin, result |-> "none",
                    bytes |-> << >>, response |-> NoResponse]

\* ----------------------------------------------------- the storage engine
\* Keys (Vec<u8>), here one byte long, in byte order.
Keys == 0 .. MaxKey

\* The region a bridge serves: [RegionStart, RegionEnd).
RegionStart == 1
RegionEnd == 4
InRegion(k) == RegionStart <= k /\ k < RegionEnd

\* The descriptor the routing layer holds of the region with this id.
RoutedRegion(id) == [id |-> id, start_key |-> RegionStart, end_key |-> RegionEnd,
                     region_epoch |-> [conf_ver |-> 1, version |-> 1]]

\* Values (Vec<u8>); the empty value is a value.
Values == {<< >>, << 1 >>}

\* Option<Value>: << >> is None, << v >> is Some(v).
None == << >>
Some(v) == << v >>

\* Durations carried by the engine's Timeout error.
Durations == {1, 2}

\* Internal errors (storage::errors::Error), all of one shape.
NoErr == [kind |-> "none", key |-> 0, start_key |-> 0, end_key |-> 0, duration |-> 0,
          text |-> ""]
KeyNotInRegionErr(k) ==
    [NoErr EXCEPT !.kind = "KeyNotInRegion", !.key = k,
                  !.start_key = RegionStart, !.end_key = RegionEnd]
TimeoutErr(d) == [NoErr EXCEPT !.kind = "Timeout", !.duration = d]
OtherErrs == {[NoErr EXCEPT !.kind = x] : x \in {"Closed", "SchedTooBusy"}}

\* What the engine can fail with whatever the keys are.
Faults == {TimeoutErr(d) : d \in Durations} \cup OtherErrs

\* A result of the engine: Ok(val) or Err(err).
EngineOk(v) == [ok |-> TRUE, val |-> v, err |-> NoErr]
EngineErr(e) == [ok |-> FALSE, val |-> << >>, err |-> e]

\* The engine's region check of the keys of an operation: the first key
\* outside the region is reported.
RECURSIVE RegionCheck(_)
RegionCheck(ks) ==
    IF ks = << >> THEN NoErr
    ELSE IF ~InRegion(Head(ks)) THEN KeyNotInRegionErr(Head(ks))
    ELSE RegionCheck(Tail(ks))

\* The engine's verdict on an operation with keys ks under fault
\* (NoErr: no fault): a key outside the region, else the fault.
Verdict(ks, fault) == IF RegionCheck(ks) # NoErr THEN RegionCheck(ks) ELSE fault

\* raw_get(ctx, cf, key).
raw_get(st, k) == EngineOk(st[k])

\* raw_batch_get(ctx, cf, keys): the pairs of the keys that are present, in
\* the order asked.
RECURSIVE raw_batch_get_pairs(_, _)
raw_batch_get_pairs(st, ks) ==
    IF ks = << >> THEN << >>
    ELSE (IF st[Head(ks)] = None THEN << >>
          ELSE << [key |-> Head(ks), value |-> st[Head(ks)][1]] >>)
         \o raw_batch_get_pairs(st, Tail(ks))
raw_batch_get(st, ks) == EngineOk(raw_batch_get_pairs(st, ks))

\* The pairs stored under the keys from..MaxKey that are below end_key,
\* ascending.
RECURSIVE PairsFrom(_, _, _)
PairsFrom(st, from, end_key) ==
    IF from > MaxKey \/ from >= end_key THEN << >>
    ELSE (IF st[from] = None THEN << >>
          ELSE << [key |-> from, value |-> st[from][1]] >>)
         \o PairsFrom(st, from + 1, end_key)

RECURSIVE Reverse(_)
Reverse(q) == IF q = << >> THEN << >> ELSE Reverse(Tail(q)) \o << Head(q) >>

\* raw_scan(ctx, cf, start_key, end_key, limit, key_only, reverse): the
\* pairs in [start_key, end_key), in scan order, at most `limit` of them,
\* without their values when key_only.
raw_scan(st, start_key, end_key, limit, key_only, reverse) ==
    LET all == PairsFrom(st, start_key, end_key)
        dir == IF reverse THEN Reverse(all) ELSE all
        cut == IF limit.bounded /\ limit.n < Len(dir) THEN SubSeq(dir, 1, limit.n) ELSE dir
    IN  EngineOk([i \in 1 .. Len(cut) |->
                     IF key_only THEN [cut[i] EXCEPT !.value = << >>] ELSE cut[i]])

\* A write as the engine sees it: mutations [key, val], val = None deletes.
PutMut(k, v) == [key |-> k, val |-> Some(v)]
DeleteMut(k) == [key |-> k, val |-> None]

\* The store after the mutations, applied first to last.
RECURSIVE ApplyMuts(_, _)
ApplyMuts(st, ms) ==
    IF ms = << >> THEN st
    ELSE ApplyMuts([st EXCEPT ![Head(ms).key] = Head(ms).val], Tail(ms))

\* The mutations of raw_delete_range(start_key, end_key).
RECURSIVE RangeMuts(_, _)
RangeMuts(from, end_key) ==
    IF from > MaxKey \/ from >= end_key THEN << >>
    ELSE << DeleteMut(from) >> \o RangeMuts(from + 1, end_key)

\* extract_region_error(&v): the request error of a failed result, if it
\* is one the client should re-route on.
extract_region_error(v) ==
    IF ~v.ok /\ v.err.kind = "KeyNotInRegion" THEN v.err ELSE NoErr

\* ------------------------------------------------------- the two bridges
\* RawStorageImpl of coprv2/storage_impl.rs (the one handle_request builds)
\* and RawStorageImpl of coprocessor_v2/raw_storage_impl.rs.
Bridges == {"coprv2", "coprocessor_v2"}

\* What a RawStorage operation gives the plugin: Ok(val), an error of the
\* bridge's error type, or a panic.
BOk(v) == [tag |-> "Ok", val |-> v, err |-> NoErr]
BErr(t, e) == [tag |-> t, val |-> << >>, err |-> e]
BPanic == [tag |-> "panic", val |-> << >>, err |-> NoErr]
NoResult == [tag |-> "none", val |-> << >>, err |-> NoErr]

\* format!("{}", e): a String naming the error; no error value any more.
Display(e) == [e EXCEPT !.kind = "String", !.text = e.kind]

\* coprv2: the chain after every engine call, for an engine result v whose
\* Ok value becomes okval.
Normalize_coprv2(v, okval) ==
    IF extract_region_error(v) # NoErr THEN BErr("RegionError", extract_region_error(v))
    ELSE IF ~v.ok THEN BErr("OtherError", Display(v.err))
    ELSE BOk(okval)

\* coprocessor_v2: From<storage::errors::Error> for StorageErrorShim.  The
\* key-not-in-region arm builds its `region` field with todo!(), which panics.
StorageErrorShim_from(e) ==
    IF e.kind = "KeyNotInRegion" THEN BPanic
    ELSE IF e.kind = "Timeout" THEN BErr("Timeout", [NoErr EXCEPT !.duration = e.duration])
    ELSE BErr("Other", e)

\* coprocessor_v2: From<Canceled> for StorageErrorShim.
StorageErrorShim_from_Canceled == BErr("Canceled", NoErr)

\* coprocessor_v2: `.map_err(StorageErrorShim::from)?` and Ok(okval).
Normalize_coprocessor_v2(v, okval) ==
    IF v.ok THEN BOk(okval) ELSE StorageErrorShim_from(v.err)

Normalize(b, v, okval) ==
    IF b = "coprv2" THEN Normalize_coprv2(v, okval) ELSE Normalize_coprocessor_v2(v, okval)

\* `.map(|kv| (kv.key, kv.value))` with the value left out.
KvToPair_NoValue(kv) == << kv.key, << >> >>

\* `.map(|kv| (kv.key, kv.value))` of batch_get.
KvToPair(kv) == << kv.key, kv.value >>

\* The arguments scan passes to raw_scan besides the range: a limit that
\* does not bound, key_only and reverse.  With a limit of one:
scan_args_Limit1 == [limit |-> [bounded |-> TRUE, n |-> 1], key_only |-> FALSE,
                     reverse |-> FALSE]

\* With usize::MAX, key_only = false, reverse = false:
scan_args == [limit |-> [bounded |-> FALSE, n |-> 0], key_only |-> FALSE, reverse |-> FALSE]

\* get: the engine's Option<Value> as it is.
bridge_get(b, v) == Normalize(b, v, v.val)

\* batch_get: extract_kv_pairs and the map to (key, value).
bridge_batch_get(b, v) == Normalize(b, v, [i \in 1 .. Len(v.val) |-> KvToPair(v.val[i])])

\* scan: extract_kv_pairs and the map to the value.
bridge_scan(b, v) == Normalize(b, v, [i \in 1 .. Len(v.val) |-> v.val[i].value])

\* A write operation right after the synchronous submission returned res,
\* not awaiting the completion when the submission was accepted.
after_submit_NoAwait(b, res) ==
    IF ~res.ok THEN [pc |-> "done", result |-> Normalize(b, res, << >>)]
    ELSE [pc |-> "done", result |-> BOk(<< >>)]

\* A write operation right after the synchronous submission returned res:
\* `match res { Err(e) => Err(e), Ok(_) => f.await ... }`.
after_submit(b, res) ==
    IF ~res.ok THEN [pc |-> "done", result |-> Normalize(b, res, << >>)]
    ELSE [pc |-> "awaiting", result |-> NoResult]

\* A write operation after `f.await` that returns Ok whatever the
\* completion delivered.
after_await_OkAlways(b, canceled, v) == BOk(<< >>)

\* A write operation after `f.await`: the channel was canceled, or it
\* delivered the callback's result v.  coprv2 uses
\* `.expect("future got canceled")`, coprocessor_v2 maps Canceled.
after_await(b, canceled, v) ==
    IF canceled
    THEN (IF b = "coprv2" THEN BPanic ELSE StorageErrorShim_from_Canceled)
    ELSE Normalize(b, v, << >>)

\* No write is with the engine.
NoPending == [active |-> FALSE, muts |-> << >>, err |-> NoErr]

\* The plugin has not called the bridge yet.
IdleCall == [pc |-> "idle", bridge |-> "", op |-> "", keys |-> << >>, vals |-> << >>,
             fault |-> NoErr, canceled |-> FALSE, result |-> NoResult]

\* Inputs of the batch operations: Vec<Key> and Vec<KvPair>, with a
\* repeated key, an absent key and a key outside the region among them.
KeyBatches == {<< >>, << 1 >>, << 1, 2 >>, << 2, 1 >>, << 3, 3 >>, << 2, 0 >>, << 1, MaxKey >>}
PairBatches == {<< >>, << <<1, <<1>>>> >>, << <<1, <<1>>>>, <<2, << >>>> >>,
                << <<3, << >>>>, <<3, <<1>>>> >>, << <<2, <<1>>>>, <<0, <<1>>>> >>}

\* ------------------------------------------------------------------- Init
\* PluginManager::new() (an empty map) inside CoprV2Endpoint::new().
Init ==
    /\ loaded_plugins = [n \in Names |-> NoPlugin]
    /\ plugin = [h \in Handles |-> "none"]
    /\ lib = [h \in Handles |-> "none"]
    /\ file = [h \in Handles |-> ""]
    /\ on_load_calls = [h \in Handles |-> 0]
    /\ on_unload_calls = [h \in Handles |-> 0]
    /\ nextHandle = 1
    /\ managerAlive = TRUE
    /\ lastOp = [n \in Names |-> "none"]
    /\ events = << >>
    /\ req = [r \in Reqs |-> IdleReq]
    /\ returned = NothingReturned
    /\ store = [k \in Keys |-> None]
    /\ pending = NoPending
    /\ call = IdleCall
    /\ acked = [k \in Keys |-> None]
    /\ issued = NoIssue

\* The manager's part of the state after the effects es.
SetManagerState(es) ==
    LET st == Run(ManagerState, es)
    IN  /\ loaded_plugins' = st.lp
        /\ plugin' = st.plugin
        /\ lib' = st.lib
        /\ file' = st.file
        /\ on_load_calls' = st.loads
        /\ on_unload_calls' = st.unloads
        /\ events' = es

\* ---------------------------------------------------------------- actions
\* PluginManager::load_plugin(filename).
LoadPlugin(f) ==
    /\ managerAlive
    /\ ExclusiveAccess
    /\ nextHandle <= MaxHandles
    /\ LET es == load_plugin(loaded_plugins, nextHandle, f)
       IN  /\ SetManagerState(es)
           /\ nextHandle' = IF FileOpens(f) THEN nextHandle + 1 ELSE nextHandle
           /\ lastOp' = IF Panicked(es) THEN lastOp
                        ELSE [lastOp EXCEPT ![FileName(f)] = "install"]
    /\ UNCHANGED <<managerAlive, req, returned>>
    /\ UNCHANGED <<bridgeVars, issued>>

\* uninstall(plugin_name).
Uninstall(n) ==
    /\ managerAlive
    /\ ExclusiveAccess
    /\ SetManagerState(uninstall(loaded_plugins, n))
    /\ lastOp' = [lastOp EXCEPT ![n] = "uninstall"]
    /\ UNCHANGED <<nextHandle, managerAlive, req, returned>>
    /\ UNCHANGED <<bridgeVars, issued>>

\* The PluginManager goes out of scope (registry teardown).
Teardown ==
    /\ managerAlive
    /\ ExclusiveAccess
    /\ SetManagerState(Drop_PluginManager(loaded_plugins, 1))
    /\ managerAlive' = FALSE
    /\ UNCHANGED <<nextHandle, lastOp, req, returned>>
    /\ UNCHANGED <<bridgeVars, issued>>

\* handle_request for a copr_name that get_plugin does not find: `.unwrap()`
\* of None panics before a response exists.
HandleRequestNotFound(r, name) ==
    /\ managerAlive
    /\ req[r].pc = "idle"
    /\ get_plugin(loaded_plugins, name) = NoPlugin
    /\ returned' = [NothingReturned EXCEPT !.call = TRUE, !.copr_name = name]
    /\ UNCHANGED <<loaded_plugins, plugin, lib, file, on_load_calls, on_unload_calls,
                   nextHandle, managerAlive, lastOp, events, req>>
    /\ UNCHANGED <<bridgeVars, issued>>

\* handle_request up to the call of on_raw_coprocessor_request: the plugin is
\* looked up and borrowed, the RawStorageImpl is built, the handler is entered.
HandleRequestEnter(r, name) ==
    /\ managerAlive
    /\ req[r].pc = "idle"
    /\ get_plugin(loaded_plugins, name) # NoPlugin
    /\ req' = [req EXCEPT ![r] = [pc |-> "in_handler", copr_name |-> name,
                                  plugin |-> get_plugin(loaded_plugins, name),
                                  region |-> Region_default,
                                  bridge |-> RawStorageImpl_new(Context(r))]]
    /\ UNCHANGED <<loaded_plugins, plugin, lib, file, on_load_calls, on_unload_calls,
                   nextHandle, managerAlive, lastOp, events, returned>>
    /\ UNCHANGED <<bridgeVars, issued>>

\* The handler ends with outcome out and handle_request runs to its end.
HandlerReturn(r, out) ==
    /\ req[r].pc = "in_handler"
    /\ returned' = [call |-> TRUE, copr_name |-> req[r].copr_name, plugin |-> req[r].plugin,
                    result |-> out.tag, bytes |-> out.bytes, response |-> Respond(out)]
    /\ req' = [req EXCEPT ![r] = IdleReq]
    /\ UNCHANGED <<loaded_plugins, plugin, lib, file, on_load_calls, on_unload_calls,
                   nextHandle, managerAlive, lastOp, events>>
    /\ UNCHANGED <<bridgeVars, issued>>

\* The handler of thread r calls an operation of the bridge it was given:
\* `let ctx = self.context.clone()` and the engine call with ctx.  The
\* handler holds the bridge as `&dyn RawStorage` for the call only.
HandlerStorageOp(r) ==
    /\ req[r].pc = "in_handler"
    /\ issued' = [by |-> r, context |-> req[r].bridge.context]
    /\ UNCHANGED <<loaded_plugins, plugin, lib, file, on_load_calls, on_unload_calls,
                   nextHandle, managerAlive, lastOp, events, req, returned>>
    /\ UNCHANGED bridgeVars

Next ==
    \/ \E f \in Files : LoadPlugin(f)
    \/ \E n \in Names : Uninstall(n)
    \/ Teardown
    \/ \E r \in Reqs, name \in CoprNames : HandleRequestNotFound(r, name)
    \/ \E r \in Reqs, name \in CoprNames : HandleRequestEnter(r, name)
    \/ \E r \in Reqs, out \in HandlerOutcomes : HandlerReturn(r, out)

Spec == Init /\ [][Next]_vars

\* Requests of several threads with their handlers using the storage.
RequestNext ==
    \/ \E f \in Files : LoadPlugin(f)
    \/ \E r \in Reqs, name \in CoprNames : HandleRequestNotFound(r, name)
    \/ \E r \in Reqs, name \in CoprNames : HandleRequestEnter(r, name)
    \/ \E r \in Reqs : HandlerStorageOp(r)
    \/ \E r \in Reqs, out \in HandlerOutcomes : HandlerReturn(r, out)

RequestSpec == Init /\ [][RequestNext]_vars

\* ------------------------------------------------- actions of the bridge
\* A finished read operation.
ReadDone(b, op, ks, e, res) ==
    /\ call' = [pc |-> "done", bridge |-> b, op |-> op, keys |-> ks, vals |-> << >>,
                fault |-> e, canceled |-> FALSE, result |-> res]
    /\ UNCHANGED <<store, pending, acked>>
    /\ UNCHANGED endpointVars

\* RawStorage::get(key).
BridgeGet(b, k, fault) ==
    /\ call.pc = "idle"
    /\ LET e == Verdict(<< k >>, fault)
           v == IF e # NoErr THEN EngineErr(e) ELSE raw_get(store, k)
       IN  ReadDone(b, "get", << k >>, e, bridge_get(b, v))

\* RawStorage::batch_get(keys).
BridgeBatchGet(b, ks, fault) ==
    /\ call.pc = "idle"
    /\ LET e == Verdict(ks, fault)
           v == IF e # NoErr THEN EngineErr(e) ELSE raw_batch_get(store, ks)
       IN  ReadDone(b, "batch_get", ks, e, bridge_batch_get(b, v))

\* RawStorage::scan(key_range).
BridgeScan(b, start_key, end_key, fault) ==
    /\ call.pc = "idle"
    /\ LET e == Verdict(<< start_key >>, fault)
           v == IF e # NoErr THEN EngineErr(e)
                ELSE raw_scan(store, start_key, end_key, scan_args.limit,
                              scan_args.key_only, scan_args.reverse)
       IN  ReadDone(b, "scan", << start_key, end_key >>, e, bridge_scan(b, v))

\* A write operation up to its `f.await`: the engine call is made with the
\* callback; the engine reports its verdict e either as the call's own
\* result (at = "submit") or later through the callback.
WriteSubmit(b, op, ks, vs, checked, muts, fault, at) ==
    /\ ~pending.active
    /\ at = "submit" => Verdict(checked, fault) # NoErr
    /\ LET e == Verdict(checked, fault)
           res == IF at = "submit" /\ e # NoErr THEN EngineErr(e) ELSE EngineOk(<< >>)
           nxt == after_submit(b, res)
       IN  /\ call' = [pc |-> nxt.pc, bridge |-> b, op |-> op, keys |-> ks, vals |-> vs,
                       fault |-> IF res.ok THEN NoErr ELSE e, canceled |-> FALSE,
                       result |-> nxt.result]
           /\ pending' = IF res.ok THEN [active |-> TRUE, muts |-> muts, err |-> e]
                         ELSE NoPending
           /\ acked' = IF nxt.result.tag = "Ok" THEN ApplyMuts(acked, muts) ELSE acked
    /\ UNCHANGED store
    /\ UNCHANGED endpointVars

\* RawStorage::put(key, value).
BridgePut(b, k, v, fault, at) ==
    /\ call.pc = "idle"
    /\ WriteSubmit(b, "put", << k >>, << v >>, << k >>, << PutMut(k, v) >>, fault, at)


\* RawStorage::batch_put(kv_pairs).
BridgeBatchPut(b, kvs, fault, at) ==
    /\ call.pc = "idle"
    /\ LET ks == [i \in 1 .. Len(kvs) |-> kvs[i][1]]
           vs == [i \in 1 .. Len(kvs) |-> kvs[i][2]]
       IN  WriteSubmit(b, "batch_put", ks, vs, ks,
                       [i \in 1 .. Len(kvs) |-> PutMut(kvs[i][1], kvs[i][2])], fault, at)

\* RawStorage::delete(key).
BridgeDelete(b, k, fault, at) ==
    /\ call.pc = "idle"
    /\ WriteSubmit(b, "delete", << k >>, << >>, << k >>, << DeleteMut(k) >>, fault, at)


\* RawStorage::batch_delete(keys).
BridgeBatchDelete(b, ks, fault, at) ==
    /\ call.pc = "idle"
    /\ WriteSubmit(b, "batch_delete", ks, << >>, ks,
                   [i \in 1 .. Len(ks) |-> DeleteMut(ks[i])], fault, at)

\* RawStorage::delete_range(key_range).
BridgeDeleteRange(b, start_key, end_key, fault, at) ==
    /\ call.pc = "idle"
    /\ WriteSubmit(b, "delete_range", << start_key, end_key >>, << >>, << start_key >>,
                   RangeMuts(start_key, end_key), fault, at)

\* The engine completes the accepted write: it applies it, or fails it,
\* and calls the callback; a bridge awaiting it goes on from `f.await`.
EngineComplete ==
    /\ pending.active
    /\ LET v == IF pending.err # NoErr THEN EngineErr(pending.err) ELSE EngineOk(<< >>)
           res == after_await(call.bridge, FALSE, v)
       IN  /\ store' = IF v.ok THEN ApplyMuts(store, pending.muts) ELSE store
           /\ IF call.pc = "awaiting"
              THEN /\ call' = [call EXCEPT !.pc = "done", !.fault = pending.err,
                                           !.result = res]
                   /\ acked' = IF res.tag = "Ok" THEN ApplyMuts(acked, pending.muts)
                               ELSE acked
              ELSE UNCHANGED <<call, acked>>
    /\ pending' = NoPending
    /\ UNCHANGED endpointVars

\* The engine drops the accepted write and its callback without calling
\* it: the completion channel is canceled.
EngineCancel ==
    /\ pending.active
    /\ call.pc = "awaiting"
    /\ call' = [call EXCEPT !.pc = "done", !.canceled = TRUE,
                            !.result = after_await(call.bridge, TRUE, EngineOk(<< >>))]
    /\ pending' = NoPending
    /\ UNCHANGED <<store, acked>>
    /\ UNCHANGED endpointVars

\* The bridge method returns its result to the plugin, which may call again.
BridgeReturn ==
    /\ call.pc = "done"
    /\ call' = IdleCall
    /\ UNCHANGED <<store, pending, acked>>
    /\ UNCHANGED endpointVars

\* What the engine reports besides the region check: nothing, or a fault.
FaultChoices == {NoErr} \cup Faults

BridgeNext ==
    \/ \E b \in Bridges, k \in Keys, ft \in FaultChoices : BridgeGet(b, k, ft)
    \/ \E b \in Bridges, ks \in KeyBatches, ft \in FaultChoices : BridgeBatchGet(b, ks, ft)
    \/ \E b \in Bridges, k1 \in Keys, k2 \in Keys, ft \in FaultChoices :
           BridgeScan(b, k1, k2, ft)
    \/ \E b \in Bridges, k \in Keys, v \in Values, ft \in FaultChoices,
          at \in {"submit", "complete"} : BridgePut(b, k, v, ft, at)
    \/ \E b \in Bridges, kvs \in PairBatches, ft \in FaultChoices,
          at \in {"submit", "complete"} : BridgeBatchPut(b, kvs, ft, at)
    \/ \E b \in Bridges, k \in Keys, ft \in FaultChoices,
          at \in {"submit", "complete"} : BridgeDelete(b, k, ft, at)
    \/ \E b \in Bridges, ks \in KeyBatches, ft \in FaultChoices,
          at \in {"submit", "complete"} : BridgeBatchDelete(b, ks, ft, at)
    \/ \E b \in Bridges, k1 \in Keys, k2 \in Keys, ft \in FaultChoices,
          at \in {"submit", "complete"} : BridgeDeleteRange(b, k1, k2, ft, at)
    \/ EngineComplete
    \/ EngineCancel
    \/ BridgeReturn

\* The plugin of one request driving its bridge.
BridgeSpec == Init /\ [][BridgeNext]_vars

\* ----------------------------------------------------------------- claims
\* The positions of the effect `kind` on handle h in the last operation.
Pos(kind, h) == {i \in 1 .. Len(events) : events[i].ev = kind /\ events[i].h = h}

\* Every `later` effect on h in the last operation has an `earlier` one before it.
Precedes(earlier, later, h) ==
    \A j \in Pos(later, h) : \E i \in Pos(earlier, h) : i < j

\* The handles the map holds.
Registered == {loaded_plugins[n] : n \in Names} \ {NoPlugin}

\* The handles of the threads inside a handler.
Borrowed == {req[r].plugin : r \in {x \in Reqs : req[x].pc = "in_handler"}}

\* C1: a request whose copr_name is not a key of the registry gets a
\* response with a non-empty other_error and no data (stated of the call of
\* handle_request that ended last).
C1_MissingPluginGetsOtherError ==
    (returned.call /\ returned.plugin = NoPlugin)
        => /\ returned.response.produced
           /\ returned.response.other_error # ""
           /\ returned.response.data = << >>

\* C2: get_plugin(name) is Some exactly when the last install/uninstall of
\* that name was a successful install.
C2_GetIffLastOpInstall ==
    managerAlive =>
        \A n \in CoprNames :
            (get_plugin(loaded_plugins, n) # NoPlugin)
                <=> (n \in Names /\ lastOp[n] = "install")

\* C2 witness: one name uninstalled after its install, the other installed.
C2_Witness ==
    /\ managerAlive
    /\ lastOp["a"] = "uninstall" /\ get_plugin(loaded_plugins, "a") = NoPlugin
    /\ lastOp["b"] = "install" /\ get_plugin(loaded_plugins, "b") # NoPlugin
    /\ \E h \in Handles : file[h] = "liba.so" /\ lib[h] = "closed"

\* C3: while a request is inside a plugin's handler, that plugin's handle is
\* intact: on_plugin_unload has not run, the plugin object exists and its
\* library is open.
C3_BorrowedHandleIntact ==
    \A h \in Borrowed :
        /\ on_unload_calls[h] = 0
        /\ plugin[h] = "alive"
        /\ lib[h] = "open"
        /\ h \in Registered

\* C3 witness: two requests inside the handler of one plugin, after another
\* handle has been destroyed.
C3_Witness ==
    /\ \A r \in Reqs : req[r].pc = "in_handler"
    /\ Cardinality(Borrowed) = 1
    /\ \E h \in Handles : on_unload_calls[h] = 1 /\ lib[h] = "closed"

\* C4: on_plugin_load has completed exactly once on every plugin that
\* get_plugin can return or whose handler is running, and it completed
\* before the insert into the map; no plugin sees it twice.
C4_LoadedOnceBeforeVisible ==
    /\ \A h \in Registered \cup Borrowed : on_load_calls[h] = 1
    /\ \A h \in Handles : on_load_calls[h] <= 1 /\ Precedes("on_load", "insert", h)

\* C4 witness: a successful install has just inserted the plugin.
C4_Witness ==
    \E h \in Registered : Pos("insert", h) # {} /\ Pos("on_load", h) # {}

\* C5: every handle that has left the registry had on_plugin_unload called
\* exactly once, before its plugin object was destroyed; a handle still in
\* the registry has not had it called.
C5_UnloadedOnceOnLeaving ==
    \A h \in Handles :
        /\ (on_load_calls[h] = 1 /\ h \notin Registered)
               => (on_unload_calls[h] = 1 /\ plugin[h] = "dropped")
        /\ h \in Registered => (on_unload_calls[h] = 0 /\ plugin[h] = "alive")
        /\ on_unload_calls[h] = 1 => Precedes("on_unload", "drop_plugin", h)
        /\ on_unload_calls[h] <= 1

\* C5 witness: the registry was torn down while it held two plugins.
C5_Witness ==
    /\ ~managerAlive
    /\ Cardinality({h \in Handles : Pos("on_unload", h) # {}}) = 2

\* C6: a plugin object that exists has its library open, and whenever a
\* handle ends the library is closed last: after the plugin object was
\* destroyed (if one was made), which is after on_plugin_unload (if it ran).
C6_LibraryOutlivesPlugin ==
    \A h \in Handles :
        /\ plugin[h] = "alive" => lib[h] = "open"
        /\ lib[h] = "closed" => plugin[h] \in {"none", "dropped"}
        /\ plugin[h] # "none" => Precedes("drop_plugin", "lib_close", h)
        /\ Precedes("lib_open", "constructor", h)
        /\ \A i \in Pos("on_unload", h) :
               \A j \in Pos("drop_plugin", h) \cup Pos("lib_close", h) : i < j

\* C6 witness: a construction that failed in on_plugin_load has just ended,
\* and a handle has been destroyed normally before.
C6_Witness ==
    /\ \E h \in Handles : Pos("on_load_abort", h) # {} /\ lib[h] = "closed"
    /\ \E h \in Handles : on_unload_calls[h] = 1 /\ lib[h] = "closed"

\* C7, as claimed: when an install replaces a handle of the same name, the
\* old handle's on_plugin_unload, destruction and library release come
\* before the new entry is put into the map.
C7_OldDestroyedBeforeInsert ==
    \A h \in Handles, o \in Handles :
        (Pos("insert", h) # {} /\ o # h) =>
            \A i \in Pos("on_unload", o) \cup Pos("drop_plugin", o) \cup Pos("lib_close", o) :
                \A j \in Pos("insert", h) : i < j

\* C7, amended: an install of a name that is already a key replaces the
\* entry, and when load_plugin returns (so before get_plugin can return
\* the new entry) the old handle has had on_plugin_unload called, its
\* plugin destroyed and its library closed, in this order.
C7_OldDestroyedWhenInstallReturns ==
    /\ \A i \in 1 .. Len(events) :
           events[i].ev = "insert" => loaded_plugins[events[i].arg] = events[i].h
    /\ \A n \in Names, o \in Handles :
           (/\ loaded_plugins[n] # NoPlugin
            /\ o # loaded_plugins[n]
            /\ on_load_calls[o] = 1
            /\ FileName(file[o]) = n)
               => /\ on_unload_calls[o] = 1 /\ plugin[o] = "dropped" /\ lib[o] = "closed"
                  /\ Precedes("on_unload", "drop_plugin", o)
                  /\ Precedes("drop_plugin", "lib_close", o)

\* C7 witness: an install has just replaced a handle of the same name.
C7_Witness ==
    \E h \in Registered, o \in Handles :
        /\ Pos("insert", h) # {}
        /\ Pos("lib_close", o) # {}
        /\ o # h /\ FileName(file[o]) = FileName(file[h])

C9_HandlerErrorIsAnswered ==
    /\ (returned.call /\ returned.result = "RegionError")
           => (returned.response.produced /\ returned.response.region_error)
    /\ (returned.call /\ returned.result = "OtherError")
           => (returned.response.produced /\ returned.response.other_error # "")

\* C10: every call of handle_request ends with a response of one of two
\* shapes: after success no error field is set; after a host failure
\* exactly one of other_error and region_error is set and data is absent.
C10_ResponseShape ==
    returned.call =>
        /\ returned.response.produced
        /\ returned.result = "Ok"
               => (returned.response.other_error = "" /\ ~returned.response.region_error)
        /\ returned.result # "Ok"
               => /\ (returned.response.other_error # "") # returned.response.region_error
                  /\ returned.response.data = << >>

\* C11: whenever the handler returns Ok(bytes), the response's data is
\* exactly those bytes and no error field is set, also when the bytes are
\* the plugin's encoding of its own error.
C11_OkBytesPassThrough ==
    (returned.call /\ returned.result = "Ok")
        => /\ returned.response.produced
           /\ returned.response.data = returned.bytes
           /\ returned.response.other_error = ""
           /\ ~returned.response.region_error

\* C11 witness: the handler has returned its own error, encoded, as Ok.
C11_Witness ==
    /\ returned.call /\ returned.result = "Ok"
    /\ returned.bytes = PluginErrorBytes
    /\ returned.response.data = PluginErrorBytes

\* The operations of the bridge that write.
WriteOps == {"put", "batch_put", "delete", "batch_delete", "delete_range"}

\* C12: a bridge operation on a key outside the region returns the error
\* value KeyNotInRegion (coprv2: its RegionError) carrying the key and the
\* region's start_key and end_key that the engine reported; it does not crash.
C12_KeyNotInRegionIsErrorValue ==
    (call.pc = "done" /\ call.fault.kind = "KeyNotInRegion")
        => /\ call.result.tag \in {"KeyNotInRegion", "RegionError"}
           /\ call.result.err.key = call.fault.key
           /\ call.result.err.start_key = RegionStart
           /\ call.result.err.end_key = RegionEnd

\* C13: a write operation whose completion channel is canceled before it
\* produced a value returns Canceled to the plugin; it does not crash.
C13_CanceledIsErrorValue ==
    (call.pc = "done" /\ call.op \in WriteOps /\ call.canceled)
        => call.result.tag = "Canceled"

\* C14: an engine Timeout(duration) is returned to the plugin as the error
\* Timeout carrying the same duration.
C14_TimeoutKeepsDuration ==
    (call.pc = "done" /\ call.fault.kind = "Timeout")
        => /\ call.result.tag = "Timeout"
           /\ call.result.err.duration = call.fault.duration

\* C15: an engine error that is neither key-not-in-region nor timeout nor
\* cancellation is returned as Other (coprv2: OtherError) whose carrier is
\* the original engine error value, unchanged.
C15_OtherKeepsOriginal ==
    (call.pc = "done" /\ call.fault \in OtherErrs)
        => /\ call.result.tag \in {"Other", "OtherError"}
           /\ call.result.err = call.fault

\* C16: with the bridge as the only writer, get(k) of a key of the region
\* that returns Ok returns what the last acknowledged write to k left:
\* None after a delete, Some(v) after a put of v, the later of two puts.
C16_GetSeesLastAckedWrite ==
    (call.pc = "done" /\ call.op = "get" /\ call.result.tag = "Ok")
        => call.result.val = acked[call.keys[1]]

\* C16 witness: a get returned Some(v) of a key that an acknowledged put
\* wrote, and a get returned None of a key after writes had been made.
C16_Witness ==
    /\ call.pc = "done" /\ call.op = "get" /\ call.result.tag = "Ok"
    /\ call.result.val = Some(<< 1 >>)
    /\ acked[call.keys[1]] = Some(<< 1 >>)
    /\ \E k \in Keys : InRegion(k) /\ k # call.keys[1] /\ acked[k] = Some(<< >>)

\* C17: batch_get(keys) that returns Ok returns, for the requested keys,
\* exactly the pairs (k, stored value of k) of those present in storage, and
\* no pair for a requested key that is absent.
C17_BatchGetPresentOnly ==
    (call.pc = "done" /\ call.op = "batch_get" /\ call.result.tag = "Ok")
        => LET got == {call.result.val[i] : i \in 1 .. Len(call.result.val)}
               asked == {call.keys[i] : i \in 1 .. Len(call.keys)}
           IN  got = {<< k, store[k][1] >> : k \in {x \in asked : store[x] # None}}

\* C17 witness: a batch_get of a present key with a non-empty value, and of
\* an absent key, returned just the present key's pair.
C17_Witness ==
    /\ call.pc = "done" /\ call.op = "batch_get" /\ call.result.tag = "Ok"
    /\ Len(call.keys) = 2
    /\ \E i, j \in 1 .. 2 :
           /\ store[call.keys[i]] = Some(<< 1 >>)
           /\ store[call.keys[j]] = None
           /\ call.result.val = << << call.keys[i], << 1 >> >> >>

\* The keys of st stored in [a, b), as a set.
StoredIn(st, a, b) == {k \in Keys : a <= k /\ k < b /\ st[k] # None}

\* C18: scan([a, b)) that returns Ok returns the values of all and only the
\* stored keys k with a <= k < b, in ascending order of key, however many.
C18_ScanWholeRangeAscending ==
    (call.pc = "done" /\ call.op = "scan" /\ call.result.tag = "Ok")
        => LET S == StoredIn(store, call.keys[1], call.keys[2])
               n == Len(call.result.val)
           IN  /\ n = Cardinality(S)
               /\ \E f \in [1 .. n -> S] :
                      /\ \A i, j \in 1 .. n : i < j => f[i] < f[j]
                      /\ \A i \in 1 .. n : call.result.val[i] = store[f[i]][1]

\* C18 witness: a scan over three stored keys returned their three values,
\* which are not all the same, in the order of the keys.
C18_Witness ==
    /\ call.pc = "done" /\ call.op = "scan" /\ call.result.tag = "Ok"
    /\ Cardinality(StoredIn(store, call.keys[1], call.keys[2])) = 3
    /\ call.result.val = << << 1 >>, << >>, << 1 >> >>
    /\ store[RegionStart] = Some(<< 1 >>)

\* A write operation returns in this step without having awaited.
ReturnsAtSubmit == call.pc = "idle" /\ call'.pc = "done" /\ call'.op \in WriteOps

\* A write operation returns in this step from its `f.await` (a panic is
\* no return).
ReturnsFromAwait ==
    call.pc = "awaiting" /\ call'.pc = "done" /\ call'.result.tag # "panic"

\* What C21 says of one step, with delivered(c) telling when the completion
\* of the returned call c counts as delivered.
C21_Step(delivered(_)) ==
    /\ ReturnsAtSubmit
           => /\ call'.fault # NoErr
              /\ call'.result = Normalize(call'.bridge, EngineErr(call'.fault), << >>)
              /\ ~pending'.active
    /\ (call.pc = "idle" /\ call'.pc = "awaiting") => (pending'.active /\ call'.fault = NoErr)
    /\ ReturnsFromAwait
           => /\ pending.active /\ ~pending'.active
              /\ delivered(call')
              /\ call'.result.tag = "Ok" => (~call'.canceled /\ pending.err = NoErr)

CallbackDelivered(c) == ~c.canceled
CompletionResolved(c) == TRUE

C23_UnloadOnlyAfterLoad ==
    /\ \A h \in Handles : on_unload_calls[h] > 0 => on_load_calls[h] > 0
    /\ \A i \in 1 .. Len(events) :
           events[i].ev = "on_load_abort"
               => LET h == events[i].h
                  IN  /\ on_load_calls[h] = 0
                      /\ on_unload_calls[h] = 0
                      /\ \A j \in 1 .. Len(events) :
                             ~(events[j].ev = "on_unload" /\ events[j].h = h)
                      /\ plugin[h] = "dropped"
                      /\ lib[h] = "closed"
                      /\ Precedes("drop_plugin", "lib_close", h)

\* C23 witness: on_plugin_load has aborted on a constructed plugin object;
\* the object is destroyed and its library closed.
C23_Witness ==
    \E i \in 1 .. Len(events) :
        /\ events[i].ev = "on_load_abort"
        /\ plugin[events[i].h] = "dropped"
        /\ lib[events[i].h] = "closed"
        /\ file[events[i].h] = "badload.so"

\* C24: every entry of the registry is indexed by the name its own plugin
\* returns, not by the file it was installed from, and no two entries share
\* a name (or a handle).
C24_KeyedByOwnName ==
    /\ \A n \in Names :
           loaded_plugins[n] # NoPlugin
               => /\ FileName(file[loaded_plugins[n]]) = n
                  /\ plugin[loaded_plugins[n]] = "alive"
    /\ \A n1, n2 \in Names :
           (n1 # n2 /\ loaded_plugins[n1] # NoPlugin) => loaded_plugins[n1] # loaded_plugins[n2]
    /\ managerAlive
           => \A h \in Handles :
                  Cardinality({n \in Names : loaded_plugins[n] = h}) <= 1

\* C24 witness: the plugins of liba.so and libb.so are both registered,
\* under "a" and "b", the first after an earlier install under the same name.
C24_Witness ==
    /\ loaded_plugins["a"] # NoPlugin /\ loaded_plugins["b"] # NoPlugin
    /\ file[loaded_plugins["a"]] = "liba.so"
    /\ file[loaded_plugins["b"]] = "libb.so"
    /\ \E h \in Handles : h # loaded_plugins["a"] /\ file[h] = "liba.so"

\* C22: the Region passed to the handler of a dispatched request is the
\* descriptor of the region the request is addressed to: its id is the
\* region id of the request's context, and its start_key, end_key and epoch
\* are those the routing layer holds for that region.
C22_RegionOfRequest ==
    \A r \in Reqs :
        req[r].pc = "in_handler"
            => /\ req[r].region.id = Context(r).region_id
               /\ req[r].region = RoutedRegion(Context(r).region_id)

\* C25, of one state: every request being handled has its own bridge,
\* holding the context of that request.
C25_OwnBridge ==
    \A r \in Reqs :
        req[r].pc = "in_handler"
            => /\ req[r].bridge.context = Context(r)
               /\ \A q \in Reqs \ {r} :
                      req[q].pc = "in_handler" => req[q].bridge # req[r].bridge

\* C25, of one step: an engine operation is issued by a request whose
\* handler has not returned, with that request's context, and issuing it
\* leaves the bridge's context as it was.
C25_IssueStep ==
    issued' # issued
        => /\ issued'.by \in Reqs
           /\ req[issued'.by].pc = "in_handler"
           /\ issued'.context = Context(issued'.by)
           /\ req' = req

\* C25: under any interleaving of requests, each request has its own
\* bridge, every engine operation issued through it carries that request's
\* context, unchanged from one operation to the next, and none is issued
\* through a bridge after its handler has returned.
C25_BridgePerRequest == [](C25_OwnBridge) /\ [][C25_IssueStep]_vars

\* C25 witness: two requests are being handled at once, and the second has
\* issued an engine operation, with its own context, after the first did.
C25_Witness ==
    /\ \A r \in Reqs : r <= 2 => req[r].pc = "in_handler"
    /\ issued = [by |-> 2, context |-> Context(2)]

\* C20: an install that fails (file cannot be opened, `_plugin_create` is
\* missing, on_plugin_load aborts) returns an error value to its caller and
\* leaves the registry's mapping as it was.
C20_FailedInstallReturnsError ==
    (\E i \in 1 .. Len(events) : events[i].ev \in {"panic", "on_load_abort"})
        => /\ load_plugin_result(events) = "Err"
           /\ \A i \in 1 .. Len(events) : events[i].ev \notin {"insert", "remove"}

====
